---- MODULE Spec2Model ----
(***************************************************************************)
(* Model of main.py: the UAF WhatsApp admissions assistant.                *)
(*                                                                         *)
(* Text is a sequence of atoms.  An atom is one character ("a", " ", ...)  *)
(* or one fixed literal of the program ("Program Name: ", the apology      *)
(* sentences, ...).  JSON / Python values are tagged records [t, v].       *)
(* A Python call either returns (Ret) or raises (Raise).                   *)
(***************************************************************************)
EXTENDS Integers, Sequences, FiniteSets, TLC

VARIABLES data_json, phase, university_programs, request,
          relevant_programs, context_parts, context, generated, response

vars == <<data_json, phase, university_programs, request,
          relevant_programs, context_parts, context, generated, response>>

\* Longest catalog the dataset file may hold.
MaxCatalog == 6

\* Longest dataset that may hold an ill-typed entry.
MaxOddLen == 2

----------------------------------------------------------------------------
\* Python values and call outcomes

Str(s) == [t |-> "str", v |-> s]

Null == [t |-> "null", v |-> <<>>]

Num == [t |-> "num", v |-> <<>>]

List(xs) == [t |-> "list", v |-> xs]

Dict(f) == [t |-> "dict", v |-> f]

Ret(x) == [t |-> "ret", v |-> x]

Raise(e) == [t |-> "raise", v |-> e]

NotRun == [t |-> "none", v |-> <<>>]

Whitespace == {" ", "\n"}

LowerMap == [c \in {"A", "B", "C", "D", "E", "N"} |->
               CASE c = "A" -> "a" [] c = "B" -> "b" [] c = "C" -> "c"
                 [] c = "D" -> "d" [] c = "E" -> "e" [] c = "N" -> "n"]

\* str.lower()
lower(s) == [k \in 1..Len(s) |-> IF s[k] \in DOMAIN LowerMap THEN LowerMap[s[k]] ELSE s[k]]

\* str(x) / the f-string rendering of x, for the value shapes of the model
py_str(x) ==
  CASE x.t = "str" -> x.v
    [] x.t = "null" -> <<"N", "o", "n", "e">>
    [] x.t = "num" -> <<"1">>

\* bool(x)
truthy(x) ==
  CASE x.t = "str" -> Len(x.v) > 0
    [] x.t = "list" -> Len(x.v) > 0
    [] x.t = "dict" -> DOMAIN x.v # {}
    [] x.t = "null" -> FALSE
    [] x.t = "num" -> TRUE

\* dict.get(key, default)
dict_get(d, key, default) == IF key \in DOMAIN d.v THEN d.v[key] ELSE default

\* str.split(): the maximal runs of non-whitespace, left to right
RECURSIVE split_from(_, _, _, _)
split_from(s, k, cur, acc) ==
  IF k > Len(s) THEN (IF cur = <<>> THEN acc ELSE Append(acc, cur))
  ELSE IF s[k] \in Whitespace
       THEN split_from(s, k + 1, <<>>, IF cur = <<>> THEN acc ELSE Append(acc, cur))
       ELSE split_from(s, k + 1, Append(cur, s[k]), acc)

py_split(s) == split_from(s, 1, <<>>, <<>>)

\* `needle in haystack` for strings
py_in(needle, haystack) ==
  \E k \in 1..(Len(haystack) - Len(needle) + 1) : SubSeq(haystack, k, k + Len(needle) - 1) = needle

\* any(keyword in text for keyword in keywords)
any_in(keywords, text) == \E k \in 1..Len(keywords) : py_in(keywords[k], text)

\* str.strip()
strip(s) ==
  LET kept == {k \in 1..Len(s) : s[k] \notin Whitespace} IN
  IF kept = {} THEN <<>>
  ELSE SubSeq(s, CHOOSE k \in kept : \A j \in kept : k <= j, CHOOSE k \in kept : \A j \in kept : j <= k)

\* sep.join(parts) for a list of strings
RECURSIVE join_from(_, _, _)
join_from(sep, parts, k) ==
  IF k > Len(parts) THEN <<>>
  ELSE IF k = Len(parts) THEN parts[k]
       ELSE parts[k] \o sep \o join_from(sep, parts, k + 1)

join(sep, parts) == join_from(sep, parts, 1)

Digits == <<"0", "1", "2", "3", "4", "5", "6", "7", "8", "9">>

\* the decimal rendering of a natural number
RECURSIVE int_str(_)
int_str(n) == IF n < 10 THEN <<Digits[n + 1]>> ELSE int_str(n \div 10) \o <<Digits[(n % 10) + 1]>>

\* the keys of a dict, as the sequence iteration yields
RECURSIVE keys_seq(_)
keys_seq(ks) == IF ks = {} THEN <<>> ELSE LET k == CHOOSE x \in ks : TRUE IN <<Str(<<k>>)>> \o keys_seq(ks \ {k})

\* iter(x): what `for item in x` walks over, or the TypeError it raises
iterate(x) ==
  CASE x.t = "list" -> Ret(x.v)
    [] x.t = "dict" -> Ret(keys_seq(DOMAIN x.v))
    [] x.t = "str" -> Ret([k \in 1..Len(x.v) |-> Str(<<x.v[k]>>)])
    [] OTHER -> Raise("TypeError")

----------------------------------------------------------------------------
\* The dataset file

\* Records of the dataset (one academic program each)
ProgAb == Dict([program_name |-> Str(<<"A", "b">>),
                faculty_or_college |-> Null,
                program_schedule |-> Str(<<"e">>),
                additional_requirements |-> Str(<<>>),
                entry_test_streams |-> List(<<>>),
                notes |-> Null])

ProgFull == Dict([program_name |-> Str(<<"a", "b", " ", " ", "c">>),
                  faculty_or_college |-> Str(<<"D">>),
                  program_schedule |-> Str(<<"b">>),
                  eligibility_criteria |-> Str(<<"e">>),
                  additional_requirements |-> Str(<<"a">>),
                  entry_test_streams |-> List(<<Str(<<"a">>), Str(<<"b">>)>>),
                  notes |-> Str(<<"b">>)])

\* a record whose entry_test_streams holds a number
ProgBadStreams == Dict([program_name |-> Str(<<"b">>), entry_test_streams |-> List(<<Num>>)])

Records == {ProgAb, ProgFull}

OddItems == {ProgBadStreams, Num}

SeqsUpTo(S, n) == UNION {[1..k -> S] : k \in 0..n}

\* JSON documents data.json may hold
Documents ==
  {List(xs) : xs \in SeqsUpTo(Records, MaxCatalog)}
    \cup {List(xs) : xs \in SeqsUpTo(Records \cup OddItems, MaxOddLen)}
    \cup {Dict([k |-> Num]), Dict(<<>>), Num, Null}

\* what opening and parsing data.json can come to
Sources ==
  {[t |-> "missing", v |-> <<>>], [t |-> "bad_utf8", v |-> <<>>], [t |-> "bad_json", v |-> <<>>]}
    \cup {[t |-> "json", v |-> d] : d \in Documents}

\* open('data.json', 'r', encoding='utf-8') followed by json.load(file)
json_load(src) ==
  CASE src.t = "missing" -> Raise("FileNotFoundError")
    [] src.t = "bad_utf8" -> Raise("UnicodeDecodeError")
    [] src.t = "bad_json" -> Raise("JSONDecodeError")
    [] src.t = "json" -> Ret(src.v)

\* len(x)
py_len(x) ==
  CASE x.t \in {"list", "str"} -> Ret(Len(x.v))
    [] x.t = "dict" -> Ret(Cardinality(DOMAIN x.v))
    [] OTHER -> Raise("TypeError")

\* load_university_data(): the value of the global afterwards, and whether the call raised
load_university_data(src, old) ==
  LET parsed == json_load(src) IN
  IF parsed.t = "ret"
  THEN IF py_len(parsed.v).t = "ret"
       THEN [glob |-> parsed.v, out |-> Ret(<<>>)]
       ELSE [glob |-> parsed.v, out |-> py_len(parsed.v)]
  ELSE IF parsed.v = "FileNotFoundError" THEN [glob |-> List(<<>>), out |-> Ret(<<>>)]
  ELSE IF parsed.v = "JSONDecodeError" THEN [glob |-> List(<<>>), out |-> Ret(<<>>)]
  ELSE [glob |-> old, out |-> parsed]

----------------------------------------------------------------------------
\* search_programs

list_prepend(l, x) == <<x>> \o l

\* list.append
list_append(l, x) == Append(l, x)

\* line 65: any(keyword in user_message_lower for keyword in program_name.split())
name_mentioned(program, user_message_lower) ==
  LET program_name == lower(py_str(dict_get(program, "program_name", Str(<<>>))))
  IN any_in(py_split(program_name), user_message_lower)

\* line 68: any(keyword in user_message_lower for keyword in faculty.split())
faculty_mentioned(program, user_message_lower) ==
  LET faculty == lower(py_str(dict_get(program, "faculty_or_college", Str(<<>>))))
  IN any_in(py_split(faculty), user_message_lower)

program_matches_name_only(program, user_message_lower) ==
  name_mentioned(program, user_message_lower)

\* the if / elif of the loop body: is the program appended
program_matches(program, user_message_lower) ==
  IF name_mentioned(program, user_message_lower) THEN TRUE
  ELSE faculty_mentioned(program, user_message_lower)

\* the for loop; a program is named by its position in the catalog, which
\* is the identity of the dict object the returned list refers to
RECURSIVE search_loop(_, _, _, _)
search_loop(items, i, user_message_lower, relevant) ==
  IF i > Len(items) THEN Ret(relevant)
  ELSE IF items[i].t # "dict" THEN Raise("AttributeError")
  ELSE IF program_matches(items[i], user_message_lower)
       THEN search_loop(items, i + 1, user_message_lower, list_append(relevant, i))
       ELSE search_loop(items, i + 1, user_message_lower, relevant)

general_context_all(catalog) == [k \in 1..Len(catalog.v) |-> k]

\* university_programs[:3]
general_context(catalog) ==
  [k \in 1..(IF Len(catalog.v) < 3 THEN Len(catalog.v) ELSE 3) |-> k]

search_programs(catalog, user_message) ==
  LET user_message_lower == lower(user_message)
      it == iterate(catalog)
  IN IF it.t = "raise" THEN it
     ELSE LET scan == search_loop(it.v, 1, user_message_lower, <<>>)
          IN IF scan.t = "raise" THEN scan
             ELSE IF scan.v = <<>> /\ truthy(catalog) THEN Ret(general_context(catalog))
             ELSE scan

\* the dict objects a list of references holds
programs_of(catalog, refs) == [k \in 1..Len(refs) |-> catalog.v[refs[k]]]

----------------------------------------------------------------------------
\* format_program_context

NoInformation == <<"No specific program information available.">>

NA == Str(<<"N/A">>)

\* ', '.join(x)
str_join(sep, x) ==
  LET it == iterate(x) IN
  IF it.t = "raise" THEN it
  ELSE IF \E k \in 1..Len(it.v) : it.v[k].t # "str" THEN Raise("TypeError")
  ELSE Ret(join(sep, [k \in 1..Len(it.v) |-> it.v[k].v]))

field_line_blank_default(label, program, key) ==
  <<label>> \o py_str(dict_get(program, key, Str(<<>>)))

\* a labelled line for a field that is always rendered
field_line(label, program, key) == <<label>> \o py_str(dict_get(program, key, NA))

\* lines 91-92 and 98-99: a labelled line for a field rendered when truthy
optional_line(label, program, key) ==
  IF truthy(dict_get(program, key, Null))
  THEN << <<label>> \o py_str(dict_get(program, key, Null)) >>
  ELSE <<>>

\* lines 94-96
streams_lines(program) ==
  LET entry_test_streams == dict_get(program, "entry_test_streams", List(<<>>)) IN
  IF truthy(entry_test_streams)
  THEN LET joined == str_join(<<",", " ">>, entry_test_streams)
       IN IF joined.t = "raise" THEN joined
          ELSE Ret(<< <<"Entry Test Streams: ">> \o joined.v >>)
  ELSE Ret(<<>>)

\* the lines one iteration of the loop appends to context_parts; i counts from 0
program_block(i, program) ==
  LET streams == streams_lines(program) IN
  IF streams.t = "raise" THEN streams
  ELSE Ret(<< <<"Program ">> \o int_str(i + 1) \o <<":">>,
              field_line("Program Name: ", program, "program_name"),
              field_line("Faculty/College: ", program, "faculty_or_college"),
              field_line("Schedule: ", program, "program_schedule"),
              field_line("Eligibility Criteria: ", program, "eligibility_criteria") >>
           \o optional_line("Additional Requirements: ", program, "additional_requirements")
           \o streams.v
           \o optional_line("Notes: ", program, "notes")
           \o << <<>> >>)

rendered_programs_first_five(programs) ==
  SubSeq(programs, 1, IF Len(programs) < 5 THEN Len(programs) ELSE 5)

\* the programs the loop of format_program_context walks over
rendered_programs(programs) == programs

RECURSIVE format_loop(_, _, _)
format_loop(programs, i, parts) ==
  IF i >= Len(programs) THEN Ret(parts)
  ELSE LET block == program_block(i, programs[i + 1])
       IN IF block.t = "raise" THEN block
          ELSE format_loop(programs, i + 1, parts \o block.v)

\* lines 82-101: context_parts once the loop is over
context_parts_of(programs) ==
  IF programs = <<>> THEN NotRun ELSE format_loop(rendered_programs(programs), 0, <<>>)

\* format_program_context, given what its loop left in context_parts
format_program_context(programs, parts) ==
  IF programs = <<>> THEN Ret(NoInformation)
  ELSE IF parts.t = "raise" THEN parts
  ELSE Ret(join(<<"\n">>, parts.v))

----------------------------------------------------------------------------
\* generate_response_with_gemini

Apology == <<"I apologize, but I'm experiencing technical difficulties. Please try again later or contact the university directly for assistance.">>

GenericApology == <<"I'm sorry, an unexpected error occurred. Please try your question again.">>

\* what the external generation call can do for one request
GenOutcomes ==
  {[t |-> "text", v |-> <<" ", "h", "i", "\n">>],
   [t |-> "raise", v |-> <<>>],
   [t |-> "notext", v |-> <<>>]}

\* lines 114-115: gemini_model.generate_content(full_prompt), then response.text.strip()
gemini_call(gen) ==
  CASE gen.t = "raise" -> Raise("GoogleAPIError")
    [] gen.t = "notext" -> Raise("ValueError")
    [] gen.t = "text" -> Ret(strip(gen.v))

generate_response_with_gemini_unguarded(user_question, ctx, gen) == gemini_call(gen)

generate_response_with_gemini(user_question, ctx, gen) ==
  LET r == gemini_call(gen) IN
  IF r.t = "raise" THEN Ret(Apology) ELSE r

----------------------------------------------------------------------------
\* whatsapp_webhook

\* the message bodies of the model
Bodies ==
  {<<>>,
   <<"A", "b", " ", "c">>,
   <<"a", "b", "c">>,
   <<"e", " ", "d">>,
   <<"n", "o", "n", "e">>}

\* how the try block ended: the exception that left it, or the generated text
pipeline_outcome(found, ctx, answer) ==
  IF found.t = "raise" THEN found
  ELSE IF ctx.t = "raise" THEN ctx
  ELSE answer

response_message_text_unguarded(outcome) == outcome

\* lines 140-154: the try / except Exception around the steps
response_message_text(outcome) ==
  IF outcome.t = "raise" THEN Ret(GenericApology) ELSE outcome

\* str(twiml_response): the envelope of a MessagingResponse holding the given messages
twiml(messages) ==
  <<"<?xml version=\"1.0\" encoding=\"UTF-8\"?>", "<Response>">>
    \o join(<<>>, [k \in 1..Len(messages) |-> <<"<Message>">> \o messages[k] \o <<"</Message>">>])
    \o <<"</Response>">>

\* lines 156-160, for the text the try block left
whatsapp_webhook(text) ==
  IF text.t = "raise" THEN text
  ELSE Ret([status |-> 200, media_type |-> "application/xml", content |-> twiml(<<text.v>>)])

\* what the transport answers for a handler that returned or raised
transport(out) ==
  IF out.t = "raise"
  THEN [status |-> 500, media_type |-> "text/plain", content |-> <<"Internal Server Error">>]
  ELSE out.v

catalog_after_webhook_rebound(catalog, found) ==
  IF found.t = "ret" THEN List(programs_of(catalog, found.v)) ELSE catalog

\* the catalog after a webhook request: search_programs appends to its own
\* list and slices a copy, format_program_context only reads
catalog_after_webhook(catalog, found) == catalog

----------------------------------------------------------------------------
\* The process

NoRequest == [endpoint |-> "none", Body |-> <<>>, gen |-> NotRun]

NoResponse == [status |-> 0, media_type |-> "", content |-> <<>>]

Init ==
  /\ data_json \in Sources
  /\ phase = "starting"
  /\ university_programs = List(<<>>)
  /\ request = NoRequest
  /\ relevant_programs = NotRun
  /\ context_parts = NotRun
  /\ context = NotRun
  /\ generated = NotRun
  /\ response = NoResponse

\* startup_event: a load that raises aborts the startup
Startup ==
  /\ phase = "starting"
  /\ university_programs' = load_university_data(data_json, university_programs).glob
  /\ phase' = IF load_university_data(data_json, university_programs).out.t = "ret"
              THEN "serving" ELSE "crashed"
  /\ UNCHANGED <<data_json, request, relevant_programs, context_parts, context, generated, response>>

\* whatsapp_webhook: the handler has no await, so it runs as one step
Webhook ==
  /\ phase = "serving"
  /\ \E Body \in Bodies, gen \in GenOutcomes :
       /\ request' = [endpoint |-> "whatsapp", Body |-> Body, gen |-> gen]
       /\ relevant_programs' = search_programs(university_programs, Body)
       /\ context_parts' =
            IF relevant_programs'.t = "ret"
            THEN context_parts_of(programs_of(university_programs, relevant_programs'.v))
            ELSE NotRun
       /\ context' =
            IF relevant_programs'.t = "ret"
            THEN format_program_context(programs_of(university_programs, relevant_programs'.v), context_parts')
            ELSE NotRun
       /\ generated' =
            IF context'.t = "ret" THEN generate_response_with_gemini(Body, context'.v, gen) ELSE NotRun
       /\ response' = transport(whatsapp_webhook(response_message_text(
                         pipeline_outcome(relevant_programs', context', generated'))))
       /\ university_programs' = catalog_after_webhook(university_programs, relevant_programs')
  /\ UNCHANGED <<data_json, phase>>

\* health_check
Health ==
  /\ phase = "serving"
  /\ request' = [endpoint |-> "health", Body |-> <<>>, gen |-> NotRun]
  /\ response' = transport(
       IF py_len(university_programs).t = "raise" THEN py_len(university_programs)
       ELSE Ret([status |-> 200, media_type |-> "application/json",
                 content |-> <<"healthy", py_len(university_programs).v > 0, TRUE>>]))
  /\ relevant_programs' = NotRun
  /\ context_parts' = NotRun
  /\ context' = NotRun
  /\ generated' = NotRun
  /\ UNCHANGED <<data_json, phase, university_programs>>

\* root
Root ==
  /\ phase = "serving"
  /\ request' = [endpoint |-> "root", Body |-> <<>>, gen |-> NotRun]
  /\ response' = [status |-> 200, media_type |-> "application/json",
                  content |-> <<"UAF WhatsApp Admissions Assistant is running", "healthy">>]
  /\ relevant_programs' = NotRun
  /\ context_parts' = NotRun
  /\ context' = NotRun
  /\ generated' = NotRun
  /\ UNCHANGED <<data_json, phase, university_programs>>

Next == Startup \/ Webhook \/ Health \/ Root

Spec == Init /\ [][Next]_vars

----
\* Vocabulary of the properties

\* tok occurs in text as a contiguous run
Occurs(tok, text) ==
  \E k \in 1..(Len(text) - Len(tok) + 1) : SubSeq(text, k, k + Len(tok) - 1) = tok

\* the whitespace-delimited tokens of s
TokenSet(s) ==
  {SubSeq(s, i, j) : <<i, j>> \in
     {ij \in (1..Len(s)) \X (1..Len(s)) :
        /\ ij[1] <= ij[2]
        /\ \A k \in ij[1]..ij[2] : s[k] \notin Whitespace
        /\ ij[1] = 1 \/ s[ij[1] - 1] \in Whitespace
        /\ ij[2] = Len(s) \/ s[ij[2] + 1] \in Whitespace}}

\* a field's text, an absent or null field being the empty string
FieldText(program, key) ==
  IF key \in DOMAIN program.v /\ program.v[key].t = "str" THEN program.v[key].v ELSE <<>>

\* the searchable text of a record: name, category and schedule, space-joined, lowercased
SearchableText(program) ==
  lower(FieldText(program, "program_name") \o <<" ">>
          \o FieldText(program, "faculty_or_college") \o <<" ">>
          \o FieldText(program, "program_schedule"))

\* the number of distinct query tokens that occur in the record's searchable text
Score(program, query) ==
  Cardinality({tok \in TokenSet(lower(query)) : Occurs(tok, SearchableText(program))})

\* a field as the retriever reads it: its string form, lowercased, absent being empty
FieldString(program, key) ==
  lower(IF key \in DOMAIN program.v
        THEN (IF program.v[key].t = "null" THEN <<"N", "o", "n", "e">> ELSE program.v[key].v)
        ELSE <<>>)

\* some token of the record's name or faculty occurs in the lowercased message
Mentioned(program, message) ==
  \E key \in {"program_name", "faculty_or_college"} :
    \E tok \in TokenSet(FieldString(program, key)) : Occurs(tok, lower(message))

\* a field as the formatter shows it
Shown(program, key) ==
  IF key \notin DOMAIN program.v THEN <<"N/A">>
  ELSE IF program.v[key].t = "null" THEN <<"N", "o", "n", "e">>
  ELSE program.v[key].v

Answered == request.endpoint = "whatsapp"

\* the catalog is a sequence of Record mappings
CatalogIsRecords ==
  /\ university_programs.t = "list"
  /\ \A k \in 1..Len(university_programs.v) : university_programs.v[k].t = "dict"

\* the last request's retrieval returned, over a catalog of records
Retrieved == Answered /\ relevant_programs.t = "ret" /\ CatalogIsRecords

CatalogLen == Len(university_programs.v)

Returned == {relevant_programs.v[k] : k \in 1..Len(relevant_programs.v)}

ScoreSet == {i \in 1..CatalogLen : Score(university_programs.v[i], request.Body) > 0}

MatchSet == {i \in 1..CatalogLen : Mentioned(university_programs.v[i], request.Body)}

FirstThree == [k \in 1..(IF CatalogLen < 3 THEN CatalogLen ELSE 3) |-> k]

\* the last request's context was rendered from at least one record
Formatted == Retrieved /\ context.t = "ret" /\ relevant_programs.v # <<>>

PassedPrograms == [k \in 1..Len(relevant_programs.v) |-> university_programs.v[relevant_programs.v[k]]]

\* the lines of a text
RECURSIVE LinesOf(_)
LinesOf(s) ==
  IF \A k \in 1..Len(s) : s[k] # "\n" THEN <<s>>
  ELSE LET nl == CHOOSE k \in 1..Len(s) : s[k] = "\n" /\ \A j \in 1..(k - 1) : s[j] # "\n"
       IN <<SubSeq(s, 1, nl - 1)>> \o LinesOf(SubSeq(s, nl + 1, Len(s)))

IsHeader(line) == line # <<>> /\ line[1] = "Program "

\* the blocks of a sequence of lines: each runs from a header up to the next header
RECURSIVE BlocksFrom(_, _, _, _)
BlocksFrom(lines, k, cur, acc) ==
  IF k > Len(lines) THEN (IF cur = <<>> THEN acc ELSE Append(acc, cur))
  ELSE IF IsHeader(lines[k])
       THEN BlocksFrom(lines, k + 1, <<lines[k]>>, IF cur = <<>> THEN acc ELSE Append(acc, cur))
       ELSE BlocksFrom(lines, k + 1, IF cur = <<>> THEN cur ELSE Append(cur, lines[k]), acc)

\* the record blocks of the last request's context
ContextBlocks == BlocksFrom(LinesOf(context.v), 1, <<>>, <<>>)

Holds(block, line) == \E k \in 1..Len(block) : block[k] = line

LabeledFields ==
  {<<"Program Name: ", "program_name">>,
   <<"Faculty/College: ", "faculty_or_college">>,
   <<"Schedule: ", "program_schedule">>,
   <<"Eligibility Criteria: ", "eligibility_criteria">>}

MessageCount(content) == Cardinality({k \in 1..Len(content) : content[k] = "<Message>"})

----------------------------------------------------------------------------
\* Properties

\* C1: every webhook request is answered with status 200 and a reply envelope
\* holding exactly one message, whichever step failed.
C1_AlwaysOneReply ==
  Answered =>
    /\ response.status = 200
    /\ response.media_type = "application/xml"
    /\ MessageCount(response.content) = 1

\* C1 witness: the format step raised and the request was still answered with a reply
C1_Witness ==
  /\ Answered
  /\ context.t = "raise"
  /\ response.status = 200
  /\ response.content = twiml(<<GenericApology>>)

\* C2: when the generation call fails (raises, or its text cannot be read),
\* generate_response_with_gemini returns the fixed apology and the reply carries it.
C2_GenerationFailureApology ==
  (Answered /\ generated.t # "none" /\ request.gen.t \in {"raise", "notext"}) =>
    /\ generated.t = "ret"
    /\ generated.v = Apology
    /\ response.status = 200
    /\ response.content = twiml(<<Apology>>)

\* C2 witness: the generation call raised and the reply is the fixed apology
C2_Witness ==
  /\ Answered
  /\ request.gen.t = "raise"
  /\ generated.t = "ret"
  /\ response.content = twiml(<<Apology>>)

\* C3, as claimed: when some record has score > 0, the returned records are
\* exactly the records with score > 0.
C3_ReturnsScored ==
  (Retrieved /\ ScoreSet # {}) => Returned = ScoreSet

\* C3, amended: when some record is mentioned (a whitespace-delimited token of
\* its lowercased name or faculty occurs in the lowercased message), the
\* returned records are exactly the mentioned records.
C3_ReturnsMentioned ==
  (Retrieved /\ MatchSet # {}) => Returned = MatchSet

\* C3 witness: one record is mentioned through its faculty only, another is not mentioned
C3_Witness ==
  /\ Retrieved
  /\ MatchSet # {}
  /\ MatchSet # 1..CatalogLen
  /\ \E i \in MatchSet :
       ~ \E tok \in TokenSet(FieldString(university_programs.v[i], "program_name")) :
           Occurs(tok, lower(request.Body))
  /\ Returned = MatchSet

\* C4, as claimed: the output is in descending score order, ties in catalog order.
C4_DescendingScore ==
  (Retrieved /\ ScoreSet # {}) =>
    \A k, l \in 1..Len(relevant_programs.v) :
      k < l =>
        LET sk == Score(university_programs.v[relevant_programs.v[k]], request.Body)
            sl == Score(university_programs.v[relevant_programs.v[l]], request.Body)
        IN sk > sl \/ (sk = sl /\ relevant_programs.v[k] < relevant_programs.v[l])

\* C4, amended: the output is in catalog order: any two returned records
\* appear in the same relative order as in the catalog.
C4_CatalogOrder ==
  Retrieved =>
    \A k, l \in 1..Len(relevant_programs.v) :
      k < l => relevant_programs.v[k] < relevant_programs.v[l]

\* C4 witness: two mentioned records were returned, the later one with the higher score
C4_Witness ==
  /\ Retrieved
  /\ MatchSet # {}
  /\ \E k, l \in 1..Len(relevant_programs.v) :
       /\ k < l
       /\ relevant_programs.v[k] < relevant_programs.v[l]
       /\ Score(university_programs.v[relevant_programs.v[k]], request.Body)
            < Score(university_programs.v[relevant_programs.v[l]], request.Body)

\* C5, as claimed: when the catalog is non-empty and no record has score > 0,
\* the output is the first 3 catalog records in catalog order.
C5_FallbackOnZeroScore ==
  (Retrieved /\ CatalogLen > 0 /\ ScoreSet = {}) => relevant_programs.v = FirstThree

\* C5, amended: when the catalog is non-empty and no record is mentioned,
\* the output is the first 3 catalog records (all if fewer) in catalog order.
C5_FallbackOnNoMention ==
  (Retrieved /\ CatalogLen > 0 /\ MatchSet = {}) => relevant_programs.v = FirstThree

\* C5 witness: no record of a catalog of more than 3 is mentioned and the first 3 came back
C5_Witness ==
  /\ Retrieved
  /\ CatalogLen > 3
  /\ MatchSet = {}
  /\ relevant_programs.v = <<1, 2, 3>>

\* C6, as claimed: the context never holds more than 5 record blocks.
C6_AtMostFiveBlocks ==
  Formatted => Len(ContextBlocks) <= 5

\* C6, amended: the context holds one block for every record passed in, in
\* the order passed, however many there are.
C6_OneBlockPerRecord ==
  Formatted =>
    LET blocks == ContextBlocks
        passed == PassedPrograms
    IN /\ Len(blocks) = Len(passed)
       /\ \A n \in 1..Len(blocks) :
            /\ blocks[n][1] = <<"Program ">> \o int_str(n) \o <<":">>
            /\ Holds(blocks[n], <<"Program Name: ">> \o Shown(passed[n], "program_name"))

\* C6 witness: more than 5 records were passed in and each was rendered
C6_Witness ==
  /\ Formatted
  /\ Len(PassedPrograms) > 5
  /\ Len(ContextBlocks) = Len(PassedPrograms)

\* C7: a missing or undecodable dataset leaves the catalog empty and the
\* process serving.
C7_LoadFailureDegrades ==
  (data_json.t \in {"missing", "bad_utf8", "bad_json"} /\ phase # "starting") =>
    /\ phase = "serving"
    /\ university_programs = List(<<>>)

\* C8: in every state of the serving process the catalog is the empty sequence
\* or a sequence of Record mappings.
C8_CatalogWellFormed == phase = "serving" => CatalogIsRecords

\* C9: no request changes the catalog.
C9_RequestsKeepCatalog ==
  [][phase = "serving" => university_programs' = university_programs]_vars

\* C9 witness: a webhook request took the fallback over a catalog of more
\* than 3 records, and the catalog is still what was loaded
C9_Witness ==
  /\ Retrieved
  /\ CatalogLen > 3
  /\ relevant_programs.v = <<1, 2, 3>>
  /\ data_json.t = "json"
  /\ university_programs = data_json.v

====
